---- MODULE Spec2Model ----
(***************************************************************************)
(* A model of nba_stats.py: the NBAStatsAnalyzer class (search_player,     *)
(* get_player_stats, calculate_advanced_stats, display_player_stats) and   *)
(* the interactive loop of main.                                           *)
(*                                                                         *)
(* Numbers.  The statistics are Python numbers; the model draws them from  *)
(* a grid of non-negative integers and carries every computed value as an  *)
(* exact fraction <<numerator, denominator>>, so that 0.44 is 44/100 and   *)
(* equalities are decided by cross-multiplication.  Floating-point         *)
(* rounding is not modelled.                                               *)
(*                                                                         *)
(* Exceptions.  A call ends in an outcome: Return(v) or Raise(type, msg).  *)
(***************************************************************************)
EXTENDS Integers, Sequences, FiniteSets, TLC

\* ------------------------------------------------------------------------
\* Bounds of the model
\* ------------------------------------------------------------------------

\* largest value of a statistic in the grid of calculator inputs
MaxStat == 2

\* ------------------------------------------------------------------------
\* Outcomes of a call
\* ------------------------------------------------------------------------

Return(v) == [kind |-> "return", value |-> v]

Raise(t, m) == [kind |-> "raise", type |-> t, msg |-> m]

\* str(KeyError(k)) is the repr of the key: the key between single quotes
KeyErrorStr(k) == "'" \o k \o "'"

\* basic_stats[k]: the value, or KeyError when the key is absent
HasKey(d, k) == k \in DOMAIN d

\* ------------------------------------------------------------------------
\* Exact arithmetic on fractions <<n, d>>
\* ------------------------------------------------------------------------

RInt(i) == <<i, 1>>

RAdd(a, b) == <<a[1] * b[2] + b[1] * a[2], a[2] * b[2]>>

RMul(a, b) == <<a[1] * b[1], a[2] * b[2]>>

\* a / b for b # 0 (Python raises ZeroDivisionError for b = 0, see Div)
RDiv(a, b) == IF b[1] < 0 THEN <<(0 - a[1]) * b[2], a[2] * (0 - b[1])>>
              ELSE <<a[1] * b[2], a[2] * b[1]>>

\* a = b as numbers (denominators are positive)
REq(a, b) == a[1] * b[2] = b[1] * a[2]

\* the literal 0.44 of the source
FtWeight == <<44, 100>>

\* the / operator: an outcome, ZeroDivisionError on a zero divisor
Div(a, b) == IF b[1] = 0 THEN Raise("ZeroDivisionError", "division by zero")
             ELSE Return(RDiv(a, b))

\* ------------------------------------------------------------------------
\* calculate_advanced_stats
\* ------------------------------------------------------------------------

\* the keys calculate_advanced_stats reads
CalcFields == {"fga", "fta", "pts", "min", "turnover", "ast"}

FullDomain(d) == CalcFields \subseteq DOMAIN d

\* the first key of the sequence ks that d lacks, as a KeyError; ks is the
\* order in which the statement subscripts d
FirstMissing(d, ks) ==
    LET missing == {i \in 1..Len(ks) : ~HasKey(d, ks[i])}
        first == CHOOSE i \in missing : \A j \in missing : i <= j
    IN  Raise("KeyError", ks[first])

AllPresent(d, ks) == \A i \in 1..Len(ks) : HasKey(d, ks[i])

\* a variant of TsPct whose guard tests fga alone
TsPctMutNoFtaGuard(b) ==
    IF ~HasKey(b, "fga") THEN Raise("KeyError", "fga")
    ELSE IF b["fga"] > 0
         THEN IF ~AllPresent(b, <<"pts", "fga", "fta">>)
              THEN FirstMissing(b, <<"pts", "fga", "fta">>)
              ELSE LET den == RMul(RInt(2), RAdd(RInt(b["fga"]), RMul(FtWeight, RInt(b["fta"]))))
                       q == Div(RInt(b["pts"]), den)
                   IN  IF q.kind = "raise" THEN q
                       ELSE Return(RMul(q.value, RInt(100)))
         ELSE Return(RInt(0))

\* lines 60-64: True Shooting Percentage.  `and` evaluates its right
\* operand only when the left one is true.
TsPct(b) ==
    IF ~HasKey(b, "fga") THEN Raise("KeyError", "fga")
    ELSE IF b["fga"] > 0
         THEN IF ~HasKey(b, "fta") THEN Raise("KeyError", "fta")
              ELSE IF b["fta"] > 0
                   THEN IF ~AllPresent(b, <<"pts", "fga", "fta">>)
                        THEN FirstMissing(b, <<"pts", "fga", "fta">>)
                        ELSE LET den == RMul(RInt(2), RAdd(RInt(b["fga"]), RMul(FtWeight, RInt(b["fta"]))))
                                 q == Div(RInt(b["pts"]), den)
                             IN  IF q.kind = "raise" THEN q
                                 ELSE Return(RMul(q.value, RInt(100)))
                   ELSE Return(RInt(0))
         ELSE Return(RInt(0))

\* a variant of UsageRate that divides without testing min
UsageRateMutNoGuard(b) ==
    IF ~AllPresent(b, <<"min", "fga", "fta", "turnover", "min">>)
    THEN FirstMissing(b, <<"min", "fga", "fta", "turnover", "min">>)
    ELSE LET num == RAdd(RAdd(RInt(b["fga"]), RMul(FtWeight, RInt(b["fta"]))), RInt(b["turnover"]))
             q == Div(num, RInt(b["min"]))
         IN  IF q.kind = "raise" THEN q
             ELSE Return(RMul(q.value, RInt(100)))

\* lines 66-70: Usage Rate (estimated)
UsageRate(b) ==
    IF ~HasKey(b, "min") THEN Raise("KeyError", "min")
    ELSE IF b["min"] > 0
         THEN IF ~AllPresent(b, <<"fga", "fta", "turnover", "min">>)
              THEN FirstMissing(b, <<"fga", "fta", "turnover", "min">>)
              ELSE LET num == RAdd(RAdd(RInt(b["fga"]), RMul(FtWeight, RInt(b["fta"]))), RInt(b["turnover"]))
                       q == Div(num, RInt(b["min"]))
                   IN  IF q.kind = "raise" THEN q
                       ELSE Return(RMul(q.value, RInt(100)))
         ELSE Return(RInt(0))

\* a variant of AstToRatio that falls back to 0 instead of ast
AstToRatioMutZero(b) ==
    IF ~HasKey(b, "turnover") THEN Raise("KeyError", "turnover")
    ELSE IF b["turnover"] > 0
         THEN IF ~AllPresent(b, <<"ast", "turnover">>)
              THEN FirstMissing(b, <<"ast", "turnover">>)
              ELSE Div(RInt(b["ast"]), RInt(b["turnover"]))
         ELSE Return(RInt(0))

\* lines 72-76: Assist to Turnover Ratio
AstToRatio(b) ==
    IF ~HasKey(b, "turnover") THEN Raise("KeyError", "turnover")
    ELSE IF b["turnover"] > 0
         THEN IF ~AllPresent(b, <<"ast", "turnover">>)
              THEN FirstMissing(b, <<"ast", "turnover">>)
              ELSE Div(RInt(b["ast"]), RInt(b["turnover"]))
         ELSE IF ~HasKey(b, "ast") THEN Raise("KeyError", "ast")
              ELSE Return(RInt(b["ast"]))

\* a variant of PtsPerShot whose guard tests fta instead of fga
PtsPerShotMutFta(b) ==
    IF ~HasKey(b, "fta") THEN Raise("KeyError", "fta")
    ELSE IF b["fta"] > 0
         THEN IF ~AllPresent(b, <<"pts", "fga">>)
              THEN FirstMissing(b, <<"pts", "fga">>)
              ELSE Div(RInt(b["pts"]), RInt(b["fga"]))
         ELSE Return(RInt(0))

\* lines 78-82: Points per Shot Attempt
PtsPerShot(b) ==
    IF ~HasKey(b, "fga") THEN Raise("KeyError", "fga")
    ELSE IF b["fga"] > 0
         THEN IF ~AllPresent(b, <<"pts", "fga">>)
              THEN FirstMissing(b, <<"pts", "fga">>)
              ELSE Div(RInt(b["pts"]), RInt(b["fga"]))
         ELSE Return(RInt(0))

\* lines 86-87: the handler turns a KeyError into a generic Exception whose
\* message names the key; any other exception leaves the function as it is
ExceptKeyError(o) ==
    IF o.kind = "raise" /\ o.type = "KeyError"
    THEN Raise("Exception", "Missing required statistics: " \o KeyErrorStr(o.msg))
    ELSE o

\* lines 55-87: what the call leaves in the two objects it was given.  The
\* results go into the fresh local dictionary advanced_stats; no statement
\* assigns to an attribute of self or to a key of basic_stats.
calculate_advanced_stats_effect(self, basic_stats) ==
    [self |-> self, basic_stats |-> basic_stats]

\* a variant that keeps per-analyzer state: the result is scaled by the
\* analyzer's season
calculate_advanced_statsMutUsesSelf(self, basic_stats) ==
    IF FullDomain(basic_stats)
    THEN Return([ts_pct |-> RInt(self.current_season), usage_rate |-> RInt(0),
                 ast_to_ratio |-> RInt(0), pts_per_shot |-> RInt(0)])
    ELSE Raise("Exception", "Missing required statistics")

\* lines 55-87: the four statements in order; the first one that raises
\* ends the try block, and the dictionary is returned only after the last
calculate_advanced_stats(self, basic_stats) ==
    LET ts == TsPct(basic_stats)
        ur == UsageRate(basic_stats)
        ar == AstToRatio(basic_stats)
        ps == PtsPerShot(basic_stats)
    IN  ExceptKeyError(
          IF ts.kind = "raise" THEN ts
          ELSE IF ur.kind = "raise" THEN ur
          ELSE IF ar.kind = "raise" THEN ar
          ELSE IF ps.kind = "raise" THEN ps
          ELSE Return([ts_pct |-> ts.value, usage_rate |-> ur.value,
                       ast_to_ratio |-> ar.value, pts_per_shot |-> ps.value]))

\* ------------------------------------------------------------------------
\* State
\* ------------------------------------------------------------------------

VARIABLES
    year,         \* datetime.now().year, the calendar year of the wall clock
    analyzer,     \* the NBAStatsAnalyzer objects, by identity
    basic_stats,  \* the dictionary the caller passes to the calculator
    request,      \* the last request handed to requests.get
    last,         \* the most recent direct method call, with its result
    prev,         \* an earlier direct method call kept for comparison
    pc,           \* position of main
    choice,       \* the menu option read by main
    season,       \* the season argument of display_player_stats
    players,      \* the list search_player returned to display_player_stats
    idx,          \* position of the for loop in players (1-based)
    trace         \* what the current display_player_stats call has done

vars == <<year, analyzer, basic_stats, request, last, prev,
          pc, choice, season, players, idx, trace>>

mainVars == <<pc, choice, season, players, idx, trace>>

\* the last year the wall clock reaches
MaxYear == 2026

Years == 2025..MaxYear

AnalyzerIds == {1, 2}

ApiKeys == {"key-a", "key-b"}

NoObject == [base_url |-> "", headers |-> [Authorization |-> ""], current_season |-> 0]

NoCall == [method |-> "none"]

NoRequest == [url |-> ""]

\* an Optional[int]: None, or an int n as Some(n)
None == <<>>

Some(n) == <<n>>

\* lines 10-15
NBAStatsAnalyzer(api_key, now) ==
    [base_url |-> "https://www.balldontlie.io/api/v1",
     headers |-> [Authorization |-> "Bearer " \o api_key],
     current_season |-> now]

\* ------------------------------------------------------------------------
\* Inputs of the calculator
\* ------------------------------------------------------------------------

StatValues == 0..MaxStat

\* every dictionary that has a value of the grid for some of the keys the
\* calculator reads and lacks the others
StatRecords == UNION {[ks -> StatValues] : ks \in SUBSET CalcFields}

\* ------------------------------------------------------------------------
\* Direct calls of calculate_advanced_stats
\* ------------------------------------------------------------------------

\* a caller invokes analyzer[id].calculate_advanced_stats(basic_stats); the
\* objects it passed are afterwards as calculate_advanced_stats_effect says
Calculate(id) ==
    /\ analyzer[id] # NoObject
    /\ LET after == calculate_advanced_stats_effect(analyzer[id], basic_stats)
       IN  /\ analyzer' = [analyzer EXCEPT ![id] = after.self]
           /\ basic_stats' = after.basic_stats
    /\ last' = [method |-> "calculate_advanced_stats", self |-> id,
                basic_stats |-> basic_stats,
                output |-> calculate_advanced_stats(analyzer[id], basic_stats)]
    /\ prev' \in {prev} \cup (IF last.method = "calculate_advanced_stats" THEN {last} ELSE {})
    /\ UNCHANGED <<year, request, mainVars>>

IdleMain ==
    /\ pc = "idle" /\ choice = [option |-> "", player_name |-> "", season |-> ""] /\ season = None
    /\ players = <<>> /\ idx = 0 /\ trace = <<>>

InitCalc ==
    /\ year \in Years
    /\ \E k \in ApiKeys :
          analyzer = [i \in AnalyzerIds |-> IF i = 1 THEN NBAStatsAnalyzer(k, year) ELSE NoObject]
    /\ basic_stats \in StatRecords
    /\ request = NoRequest
    /\ last = NoCall
    /\ prev = NoCall
    /\ IdleMain

NextCalc == \E id \in AnalyzerIds : Calculate(id)

SpecCalc == InitCalc /\ [][NextCalc]_vars

\* ------------------------------------------------------------------------
\* Claims about the calculator
\* ------------------------------------------------------------------------

CalcCalled == last.method = "calculate_advanced_stats"

CalcReturned == CalcCalled /\ last.output.kind = "return"

FullRecord(b) == DOMAIN b = CalcFields

MissingFieldError(f) == Raise("Exception", "Missing required statistics: " \o KeyErrorStr(f))

\* C1: for every field f the calculator requires, a call on a record that
\* lacks f (the other fields present, with any values) fails with the
\* missing-field error naming f and returns no dictionary.
C1_MissingFieldAlwaysFails ==
    CalcCalled =>
        \A f \in CalcFields :
            DOMAIN last.basic_stats = CalcFields \ {f}
                => last.output = MissingFieldError(f)

\* C2: a call on a record with fga = 0 yields pts_per_shot = 0 and
\* ts_pct = 0 whatever the other fields are: every such call that returns
\* returns both as 0, and every such call on a complete record returns.
C2_ZeroAttempts ==
    (CalcCalled /\ HasKey(last.basic_stats, "fga") /\ last.basic_stats["fga"] = 0) =>
        /\ FullRecord(last.basic_stats) => last.output.kind = "return"
        /\ last.output.kind = "return" =>
              /\ REq(last.output.value.pts_per_shot, RInt(0))
              /\ REq(last.output.value.ts_pct, RInt(0))

C2_Witness ==
    /\ CalcReturned
    /\ FullRecord(last.basic_stats)
    /\ last.basic_stats["fga"] = 0
    /\ last.basic_stats["pts"] > 0
    /\ last.basic_stats["fta"] > 0
    /\ last.basic_stats["min"] > 0

\* C3: with turnover = 0 the returned ast_to_ratio is the raw ast value;
\* with turnover > 0 it is ast / turnover (ast = 5, turnover = 2: 2.5).
C3_AssistTurnover ==
    /\ CalcReturned =>
          LET b == last.basic_stats
              r == last.output.value.ast_to_ratio
          IN  /\ HasKey(b, "turnover") /\ HasKey(b, "ast")
              /\ r[2] # 0
              /\ b["turnover"] = 0 => REq(r, RInt(b["ast"]))
              /\ b["turnover"] > 0 => REq(r, <<b["ast"], b["turnover"]>>)
    /\ LET o == AstToRatio([ast |-> 5, turnover |-> 2])
       IN  o.kind = "return" /\ REq(o.value, <<25, 10>>)

C3_Witness ==
    /\ CalcReturned
    /\ last.basic_stats["turnover"] = 0
    /\ last.basic_stats["ast"] > 0
    /\ REq(last.output.value.ast_to_ratio, RInt(last.basic_stats["ast"]))

\* C4: with min = 0 the returned usage_rate is 0 whatever fga, fta and
\* turnover are; with min > 0 it is (fga + 0.44*fta + turnover) / min * 100.
C4_UsageRate ==
    /\ (CalcCalled /\ FullRecord(last.basic_stats)) => last.output.kind = "return"
    /\ CalcReturned =>
          LET b == last.basic_stats
              r == last.output.value.usage_rate
          IN  /\ r[2] # 0
              /\ b["min"] = 0 => REq(r, RInt(0))
              /\ b["min"] > 0 =>
                    REq(r, <<100 * (100 * b["fga"] + 44 * b["fta"] + 100 * b["turnover"]),
                             100 * b["min"]>>)

C4_Witness ==
    /\ CalcReturned
    /\ last.basic_stats["min"] = 0
    /\ last.basic_stats["fga"] > 0
    /\ last.basic_stats["fta"] > 0
    /\ last.basic_stats["turnover"] > 0
    /\ REq(last.output.value.usage_rate, RInt(0))

\* C5: ts_pct is pts / (2 * (fga + 0.44 * fta)) * 100 exactly when fga > 0
\* and fta > 0 and is 0 in every other case, so the division never meets a
\* zero denominator (pts = 30, fga = 20, fta = 10: 30 / 48.8 * 100).
C5_TrueShooting ==
    /\ CalcCalled => ~(last.output.kind = "raise" /\ last.output.type = "ZeroDivisionError")
    /\ CalcReturned =>
          LET b == last.basic_stats
              r == last.output.value.ts_pct
          IN  /\ r[2] # 0
              /\ IF b["fga"] > 0 /\ b["fta"] > 0
                 THEN REq(r, <<10000 * b["pts"], 200 * b["fga"] + 88 * b["fta"]>>)
                 ELSE REq(r, RInt(0))
    /\ LET o == TsPct([pts |-> 30, fga |-> 20, fta |-> 10])
       IN  o.kind = "return" /\ REq(o.value, <<30 * 100 * 10, 2 * 244>>)

C5_Witness ==
    /\ CalcReturned
    /\ last.basic_stats["fga"] > 0
    /\ last.basic_stats["fta"] = 0
    /\ last.basic_stats["pts"] > 0
    /\ REq(last.output.value.ts_pct, RInt(0))

\* ------------------------------------------------------------------------
\* The provider: what requests.get and response.json() can do
\* ------------------------------------------------------------------------

\* largest number of players in one search result
MaxPlayers == 2

Statuses == {200, 401, 429, 404, 500}

\* f"{response.status_code}"
StatusText(n) ==
    CASE n = 200 -> "200"
      [] n = 401 -> "401"
      [] n = 404 -> "404"
      [] n = 429 -> "429"
      [] n = 500 -> "500"

\* str(e) of a requests.exceptions.RequestException; any text is possible
TransportTexts == {"Connection refused", "Invalid API key. Please check your API key."}

TransportFailures == {Raise("RequestException", t) : t \in TransportTexts}

\* what response.json() does on a body that is not the expected object:
\* a JSON object without "data", or no JSON at all, for which json() raises
\* requests.exceptions.JSONDecodeError (a RequestException) from requests
\* 2.27 on and a plain ValueError before
BadBodies == {Return([message |-> "ok"]),
              Raise("RequestException", "Expecting value"),
              Raise("ValueError", "Expecting value")}

\* the outcomes of requests.get when the 200 answers carry data from D
GetOutcomes(D) ==
    TransportFailures
    \cup {Return([status_code |-> n, json |-> Return([message |-> "error"])]) : n \in Statuses \ {200}}
    \cup {Return([status_code |-> 200, json |-> Return([data |-> d])]) : d \in D}
    \cup {Return([status_code |-> 200, json |-> j]) : j \in BadBodies}

\* a player identity as the provider lists it
Player(i) ==
    [id |-> i, first_name |-> "first", last_name |-> "last",
     team |-> [full_name |-> "team"], position |-> "G"]

Without(d, k) == [x \in DOMAIN d \ {k} |-> d[x]]

PlayerPool == {Player(1), Player(2), Without(Player(3), "position")}

RECURSIVE ListsUpTo(_, _)
ListsUpTo(S, n) ==
    IF n = 0 THEN {<<>>}
    ELSE LET shorter == ListsUpTo(S, n - 1)
         IN  shorter \cup {Append(l, x) : l \in {m \in shorter : Len(m) = n - 1}, x \in S}

PlayerLists == ListsUpTo(PlayerPool, MaxPlayers)

\* one season-average record
SeasonAverage(fga, fta, pts, min, turnover, ast) ==
    [games_played |-> 1, min |-> min, pts |-> pts, reb |-> 1, ast |-> ast,
     stl |-> 1, blk |-> 1, fg_pct |-> 1, fg3_pct |-> 0, ft_pct |-> 1,
     fga |-> fga, fta |-> fta, turnover |-> turnover]

Shooter == SeasonAverage(2, 1, 2, 1, 1, 2)

Benchwarmer == SeasonAverage(0, 0, 0, 0, 0, 1)

StatsPool == {Shooter, Benchwarmer, Without(Shooter, "turnover"), Without(Shooter, "reb")}

\* the "data" lists of a season_averages answer
StatsLists ==
    {<<>>} \cup {<<r>> : r \in StatsPool}
    \cup {<<Shooter, Without(Shooter, "turnover")>>, <<Without(Shooter, "turnover"), Shooter>>}

Seasons == {0, 2024}

PlayerNames == {"curry"}

\* ------------------------------------------------------------------------
\* search_player and get_player_stats
\* ------------------------------------------------------------------------

\* lines 19-23: the request search_player sends
search_request(self, player_name) ==
    [url |-> self.base_url \o "/players",
     params |-> [search |-> player_name],
     headers |-> self.headers]

\* a variant of search_player whose 429 branch repeats the message of the
\* 401 branch
search_playerMutSameMessage(self, player_name, got) ==
    IF got.kind = "raise"
    THEN IF got.type = "RequestException"
         THEN Raise("Exception", "API request failed: " \o got.msg)
         ELSE got
    ELSE LET response == got.value
         IN  IF response.status_code = 200
             THEN LET j == response.json
                  IN  IF j.kind = "raise"
                      THEN IF j.type = "RequestException"
                           THEN Raise("Exception", "API request failed: " \o j.msg)
                           ELSE j
                      ELSE IF HasKey(j.value, "data")
                           THEN Return(j.value["data"])
                           ELSE Raise("KeyError", "data")
             ELSE IF response.status_code = 401
             THEN Raise("Exception", "Invalid API key. Please check your API key.")
             ELSE IF response.status_code = 429
             THEN Raise("Exception", "Invalid API key. Please check your API key.")
             ELSE Raise("Exception", "API request failed with status code "
                                     \o StatusText(response.status_code))

\* lines 22-33; got is what requests.get did.  The raise statements of the
\* try block raise Exception, which the except clause (RequestException)
\* does not catch.
search_player(self, player_name, got) ==
    IF got.kind = "raise"
    THEN IF got.type = "RequestException"
         THEN Raise("Exception", "API request failed: " \o got.msg)
         ELSE got
    ELSE LET response == got.value
         IN  IF response.status_code = 200
             THEN LET j == response.json
                  IN  IF j.kind = "raise"
                      THEN IF j.type = "RequestException"
                           THEN Raise("Exception", "API request failed: " \o j.msg)
                           ELSE j
                      ELSE IF HasKey(j.value, "data")
                           THEN Return(j.value["data"])
                           ELSE Raise("KeyError", "data")
             ELSE IF response.status_code = 401
             THEN Raise("Exception", "Invalid API key. Please check your API key.")
             ELSE IF response.status_code = 429
             THEN Raise("Exception", "Rate limit exceeded. Please try again later.")
             ELSE Raise("Exception", "API request failed with status code "
                                     \o StatusText(response.status_code))

\* lines 37-47: the request get_player_stats sends
stats_request(self, player_id, s) ==
    [url |-> self.base_url \o "/season_averages",
     params |-> ("player_ids[]" :> player_id)
                @@ ("season" :> (IF s = None THEN self.current_season ELSE s[1])),
     headers |-> self.headers]

\* lines 46-53
get_player_stats(self, player_id, s, got) ==
    IF got.kind = "raise"
    THEN IF got.type = "RequestException"
         THEN Raise("Exception", "Failed to get player stats: " \o got.msg)
         ELSE got
    ELSE LET response == got.value
         IN  IF response.status_code = 200
             THEN LET j == response.json
                  IN  IF j.kind = "raise"
                      THEN IF j.type = "RequestException"
                           THEN Raise("Exception", "Failed to get player stats: " \o j.msg)
                           ELSE j
                      ELSE IF HasKey(j.value, "data")
                           THEN Return(j.value["data"])
                           ELSE Raise("KeyError", "data")
             ELSE Raise("Exception", "Failed to get player stats. Status code: "
                                     \o StatusText(response.status_code))

\* ------------------------------------------------------------------------
\* Direct calls of the provider methods, the clock and construction
\* ------------------------------------------------------------------------

\* an earlier call of the same method may be kept for comparison
Keep(method) == {prev} \cup (IF last.method = method THEN {last} ELSE {})

\* analyzer[id] = NBAStatsAnalyzer(api_key)
Construct(id, api_key) ==
    /\ analyzer[id] = NoObject
    /\ analyzer' = [analyzer EXCEPT ![id] = NBAStatsAnalyzer(api_key, year)]
    /\ UNCHANGED <<year, basic_stats, request, last, prev, mainVars>>

\* the calendar year changes while the process runs
NewYear ==
    /\ year < MaxYear
    /\ year' = year + 1
    /\ UNCHANGED <<analyzer, basic_stats, request, last, prev, mainVars>>

\* the caller gets hold of another record
PickRecord(r) ==
    /\ basic_stats # r
    /\ basic_stats' = r
    /\ UNCHANGED <<year, analyzer, request, last, prev, mainVars>>

SearchPlayer(id, player_name, got) ==
    /\ analyzer[id] # NoObject
    /\ request' = search_request(analyzer[id], player_name)
    /\ last' = [method |-> "search_player", self |-> id, got |-> got,
                output |-> search_player(analyzer[id], player_name, got)]
    /\ prev' \in Keep("search_player")
    /\ UNCHANGED <<year, analyzer, basic_stats, mainVars>>

GetPlayerStats(id, player_id, s, got) ==
    /\ analyzer[id] # NoObject
    /\ request' = stats_request(analyzer[id], player_id, s)
    /\ last' = [method |-> "get_player_stats", self |-> id, season |-> s,
                year |-> year, request |-> request',
                output |-> get_player_stats(analyzer[id], player_id, s, got)]
    /\ prev' = prev
    /\ UNCHANGED <<year, analyzer, basic_stats, mainVars>>

InitObjects ==
    /\ year \in Years
    /\ analyzer = [i \in AnalyzerIds |-> NoObject]
    /\ basic_stats = Shooter
    /\ request = NoRequest
    /\ last = NoCall
    /\ prev = NoCall
    /\ IdleMain

NextPure ==
    \/ \E id \in AnalyzerIds, k \in ApiKeys : Construct(id, k)
    \/ NewYear
    \/ \E r \in StatsPool : PickRecord(r)
    \/ \E id \in AnalyzerIds : Calculate(id)

SpecPure == InitObjects /\ [][NextPure]_vars

\* the search results of the direct calls: lists of one player
SearchLists == ListsUpTo({Player(1)}, MaxPlayers)

NextSearch ==
    \/ \E id \in AnalyzerIds, k \in ApiKeys : Construct(id, k)
    \/ \E id \in AnalyzerIds, n \in PlayerNames, got \in GetOutcomes(SearchLists) :
          SearchPlayer(id, n, got)

SpecSearch == InitObjects /\ [][NextSearch]_vars

NextStats ==
    \/ \E id \in AnalyzerIds, k \in ApiKeys : Construct(id, k)
    \/ NewYear
    \/ \E id \in AnalyzerIds, p \in {1, 2}, s \in {Some(n) : n \in Seasons} \cup {None},
          got \in GetOutcomes(StatsLists) : GetPlayerStats(id, p, s, got)

SpecStats == InitObjects /\ [][NextStats]_vars

\* ------------------------------------------------------------------------
\* Claims about the calls of one object's methods
\* ------------------------------------------------------------------------

\* C6: the outcome of calculate_advanced_stats depends on its input record
\* only: two calls on equal records have equal outcomes, whichever analyzers
\* (api key, current_season) they are made on and whatever happens between
\* them, and a call changes neither the record nor a field of an analyzer.
C6_DependsOnInputOnly ==
    /\ []((/\ prev.method = "calculate_advanced_stats"
           /\ last.method = "calculate_advanced_stats"
           /\ prev.basic_stats = last.basic_stats) => prev.output = last.output)
    /\ [][(\E id \in AnalyzerIds : Calculate(id))
             => (analyzer' = analyzer /\ basic_stats' = basic_stats)]_vars

C6_Witness ==
    /\ prev.method = "calculate_advanced_stats"
    /\ last.method = "calculate_advanced_stats"
    /\ prev.basic_stats = last.basic_stats
    /\ prev.self # last.self
    /\ analyzer[1].current_season # analyzer[2].current_season
    /\ analyzer[1].headers # analyzer[2].headers
    /\ basic_stats # last.basic_stats

\* what the provider did, as search_player tells the cases apart
Cause(got) ==
    IF got.kind = "raise" THEN "transport"
    ELSE IF got.value.status_code = 200 THEN "ok"
    ELSE IF got.value.status_code = 401 THEN "authentication"
    ELSE IF got.value.status_code = 429 THEN "rate-limit"
    ELSE "status"

\* C7: search_player returns a list only on a 200 answer; a 401 answer, a
\* 429 answer and a transport failure each make it fail, and the failures of
\* these three kinds differ from one another and from the failure of any
\* other failing status, so that a caller can tell them apart.
C7_DistinguishedFailures ==
    last.method = "search_player" =>
        /\ last.output.kind = "return" => Cause(last.got) = "ok"
        /\ Cause(last.got) # "ok" => last.output.kind = "raise"
        /\ (/\ prev.method = "search_player"
            /\ Cause(prev.got) # "ok"
            /\ Cause(last.got) # "ok"
            /\ Cause(prev.got) # Cause(last.got)) => prev.output # last.output

C7_Witness ==
    /\ prev.method = "search_player"
    /\ last.method = "search_player"
    /\ Cause(prev.got) = "authentication"
    /\ Cause(last.got) = "rate-limit"
    /\ prev.output.kind = "raise"
    /\ last.output.kind = "raise"

\* C8: a get_player_stats call without a season sends the calendar year of
\* the time of the call as the season; a call with a season sends that
\* season.
C8_SeasonSent ==
    last.method = "get_player_stats" =>
        last.request.params["season"] =
            (IF last.season = None THEN last.year ELSE last.season[1])

\* ------------------------------------------------------------------------
\* Console input
\* ------------------------------------------------------------------------

\* A typed line is a sequence of characters.

RECURSIVE LStrip(_)
LStrip(l) == IF l # <<>> /\ Head(l) = " " THEN LStrip(Tail(l)) ELSE l

RECURSIVE RStrip(_)
RStrip(l) == IF l # <<>> /\ l[Len(l)] = " " THEN RStrip(SubSeq(l, 1, Len(l) - 1)) ELSE l

\* str.strip()
Strip(l) == RStrip(LStrip(l))

\* the str of a sequence of characters
RECURSIVE Text(_)
Text(l) == IF l = <<>> THEN "" ELSE Head(l) \o Text(Tail(l))

Digits == <<"0", "1", "2", "3", "4", "5", "6", "7", "8", "9">>

IsDigit(c) == \E d \in 1..10 : Digits[d] = c

DigitValue(c) == (CHOOSE d \in 1..10 : Digits[d] = c) - 1

RECURSIVE Decimal(_)
Decimal(l) == IF l = <<>> THEN 0 ELSE 10 * Decimal(SubSeq(l, 1, Len(l) - 1)) + DigitValue(l[Len(l)])

\* int(text) for a text of letters, digits, signs and blanks: an optional
\* sign and at least one digit, ValueError otherwise
int(l) ==
    LET body == IF l # <<>> /\ l[1] \in {"+", "-"} THEN Tail(l) ELSE l
    IN  IF body # <<>> /\ \A i \in 1..Len(body) : IsDigit(body[i])
        THEN Return(IF l[1] = "-" THEN 0 - Decimal(body) ELSE Decimal(body))
        ELSE Raise("ValueError", "invalid literal for int() with base 10: "
                                 \o KeyErrorStr(Text(l)))

KeyLines == {<<"k", "1">>, <<" ", "k", "2", " ">>}

ChoiceLines == {<<"1">>, <<"2">>, <<"3">>, <<" ", "3">>, <<"4">>, <<>>}

NameLines == {<<"c", "u", "r", "r", "y", " ">>}

SeasonLines == {<<>>, <<" ">>, <<"0">>, <<"2", "0", "2", "4">>, <<"a", "b", "c">>}

\* ------------------------------------------------------------------------
\* display_player_stats
\* ------------------------------------------------------------------------

\* one thing display_player_stats did: a call (arg is its outcome) or a
\* print, for the player at position pos of the list (0: none)
Ev(kind, pos, arg) == [ev |-> kind, pos |-> pos, arg |-> arg]

\* str(e)
ExcStr(o) == IF o.type = "KeyError" THEN KeyErrorStr(o.msg) ELSE o.msg

\* lines 132-133: print(f"Error: {str(e)}")
ErrorEv(o) == Ev("error", 0, "Error: " \o ExcStr(o))

TableFields == <<"games_played", "min", "pts", "reb", "ast", "stl", "blk",
                 "fg_pct", "fg3_pct", "ft_pct">>

\* lines 102-104: the three prints of the player's identity; each is made
\* before the next subscript is evaluated
print_identity(player, i) ==
    IF ~AllPresent(player, <<"first_name", "last_name">>)
    THEN [events |-> <<>>, raised |-> FirstMissing(player, <<"first_name", "last_name">>)]
    ELSE IF ~HasKey(player, "team")
    THEN [events |-> <<Ev("player", i, "")>>, raised |-> Raise("KeyError", "team")]
    ELSE IF ~HasKey(player["team"], "full_name")
    THEN [events |-> <<Ev("player", i, "")>>, raised |-> Raise("KeyError", "full_name")]
    ELSE IF ~HasKey(player, "position")
    THEN [events |-> <<Ev("player", i, ""), Ev("team", i, "")>>,
          raised |-> Raise("KeyError", "position")]
    ELSE [events |-> <<Ev("player", i, ""), Ev("team", i, ""), Ev("position", i, "")>>,
          raised |-> Return(None)]

\* lines 106-130: the season averages and the advanced statistics of one
\* player, from the list get_player_stats returned
print_stats(self, stats, s, i) ==
    IF stats = <<>>
    THEN [events |-> <<Ev("no statistics", i, s)>>, raised |-> Return(None)]
    ELSE LET first == stats[1]
         IN  IF ~AllPresent(first, TableFields)
             THEN [events |-> <<>>, raised |-> FirstMissing(first, TableFields)]
             ELSE LET adv == calculate_advanced_stats(self, first)
                  IN  IF adv.kind = "raise"
                      THEN [events |-> <<Ev("table", i, ""), Ev("calculate", i, [basic_stats |-> first, output |-> adv])>>,
                            raised |-> adv]
                      ELSE [events |-> <<Ev("table", i, ""), Ev("calculate", i, [basic_stats |-> first, output |-> adv]),
                                         Ev("advanced", i, "")>>,
                            raised |-> Return(None)]

\* lines 98-130: one pass of the for loop, for the player at position i;
\* got is what requests.get did.  The result is what was done, in order,
\* and the exception that ended the pass, if any.
display_one_player(self, player, s, got, i) ==
    IF ~HasKey(player, "id")
    THEN [events |-> <<>>, raised |-> Raise("KeyError", "id")]
    ELSE LET stats == get_player_stats(self, player["id"], s, got)
             fetch == Ev("fetch", i, [player_id |-> player["id"], output |-> stats])
         IN  IF stats.kind = "raise"
             THEN [events |-> <<fetch>>, raised |-> stats]
             ELSE LET ident == print_identity(player, i)
                  IN  IF ident.raised.kind = "raise"
                      THEN [events |-> <<fetch>> \o ident.events, raised |-> ident.raised]
                      ELSE LET shown == print_stats(self, stats.value, s, i)
                           IN  [events |-> <<fetch>> \o ident.events \o shown.events,
                                raised |-> shown.raised]

\* a variant of after_player with the handler inside the loop: the loop
\* goes on to the next player after an exception
after_playerMutContinue(raised, i, n) ==
    IF i < n THEN "display_loop" ELSE "menu"

\* lines 98, 132-133: where display_player_stats goes after the pass for the
\* player at position i of n: an exception leaves the loop for the handler,
\* which prints and lets the method return
after_player(raised, i, n) ==
    IF raised.kind = "raise" THEN "menu"
    ELSE IF i < n THEN "display_loop" ELSE "menu"

\* lines 132-133: `except Exception` catches every exception the method's
\* calls raise; the handler prints it
handled(raised) == IF raised.kind = "raise" THEN <<ErrorEv(raised)>> ELSE <<>>

\* lines 91-97: the search and the test of its result
DisplaySearch(got) ==
    /\ pc = "display_search"
    /\ LET self == analyzer[1]
           found == search_player(self, choice.player_name, got)
       IN  /\ request' = search_request(self, choice.player_name)
           /\ trace' = <<Ev("search", 0, found)>> \o handled(found)
                        \o (IF found.kind = "return" /\ found.value = <<>>
                            THEN <<Ev("no players", 0, "")>> ELSE <<>>)
           /\ players' = IF found.kind = "return" THEN found.value ELSE <<>>
           /\ idx' = IF found.kind = "return" /\ found.value # <<>> THEN 1 ELSE 0
           /\ pc' = IF found.kind = "return" /\ found.value # <<>> THEN "display_loop" ELSE "menu"
    /\ UNCHANGED <<year, analyzer, basic_stats, last, prev, choice, season>>

\* lines 98-130, 132-133: the pass of the for loop for players[idx]
DisplayPlayer(got) ==
    /\ pc = "display_loop"
    /\ LET self == analyzer[1]
           player == players[idx]
           pass == display_one_player(self, player, season, got, idx)
       IN  /\ request' = IF HasKey(player, "id")
                         THEN stats_request(self, player["id"], season)
                         ELSE request
           /\ trace' = trace \o pass.events \o handled(pass.raised)
           /\ pc' = after_player(pass.raised, idx, Len(players))
           /\ idx' = IF pc' = "display_loop" THEN idx + 1 ELSE idx
    /\ UNCHANGED <<year, analyzer, basic_stats, last, prev, choice, season, players>>

\* ------------------------------------------------------------------------
\* main
\* ------------------------------------------------------------------------

NoChoice == [option |-> "", player_name |-> "", season |-> ""]

\* lines 137-138
Start(key_line) ==
    /\ pc = "start"
    /\ analyzer' = [analyzer EXCEPT ![1] = NBAStatsAnalyzer(Text(Strip(key_line)), year)]
    /\ pc' = "menu"
    /\ UNCHANGED <<year, basic_stats, request, last, prev, choice, season, players, idx, trace>>

\* lines 140-158 and 160-161: one pass of the while loop up to the call of
\* display_player_stats.  Option 3 leaves the loop; a season text int()
\* rejects raises ValueError, which the handler of main prints before main
\* returns; any option other than 1, 2 and 3 asks for the name and loops.
Menu(choice_line, name_line, season_line) ==
    /\ pc = "menu"
    /\ LET option == Text(Strip(choice_line))
           player_name == Text(Strip(name_line))
           text == Strip(season_line)
           parsed == IF text # <<>> THEN int(text) ELSE Return(None)
       IN  IF option = "3"
           THEN /\ choice' = [option |-> option, player_name |-> "", season |-> ""]
                /\ pc' = "end"
                /\ UNCHANGED <<season, trace>>
           ELSE IF option = "1"
           THEN /\ choice' = [option |-> option, player_name |-> player_name, season |-> Text(text)]
                /\ IF parsed.kind = "raise"
                   THEN /\ pc' = "end"
                        /\ trace' = <<ErrorEv(parsed)>>
                        /\ UNCHANGED season
                   ELSE /\ pc' = "display_search"
                        /\ season' = IF text = <<>> THEN None ELSE Some(parsed.value)
                        /\ trace' = <<>>
           ELSE IF option = "2"
           THEN /\ choice' = [option |-> option, player_name |-> player_name, season |-> ""]
                /\ pc' = "display_search"
                /\ season' = None
                /\ trace' = <<>>
           ELSE /\ choice' = [option |-> option, player_name |-> player_name, season |-> ""]
                /\ pc' = "menu"
                /\ UNCHANGED <<season, trace>>
    /\ UNCHANGED <<year, analyzer, basic_stats, request, last, prev, players, idx>>

InitMain ==
    /\ year \in Years
    /\ analyzer = [i \in AnalyzerIds |-> NoObject]
    /\ basic_stats = Shooter
    /\ request = NoRequest
    /\ last = NoCall
    /\ prev = NoCall
    /\ pc = "start"
    /\ choice = NoChoice
    /\ season = None
    /\ players = <<>>
    /\ idx = 0
    /\ trace = <<>>

NextMain ==
    \/ \E k \in KeyLines : Start(k)
    \/ \E c \in ChoiceLines, n \in NameLines, s \in SeasonLines : Menu(c, n, s)
    \/ \E got \in GetOutcomes(PlayerLists) : DisplaySearch(got)
    \/ \E got \in GetOutcomes(StatsLists) : DisplayPlayer(got)

SpecMain == InitMain /\ [][NextMain]_vars

\* ------------------------------------------------------------------------
\* Claims about display_player_stats and main
\* ------------------------------------------------------------------------

\* main is inside its call of display_player_stats
InDisplay == pc \in {"display_search", "display_loop"}

\* the pass for a player failed in its fetch or in its calculation
FailedAt(k) ==
    \/ trace[k].ev = "fetch" /\ trace[k].arg.output.kind = "raise"
    \/ trace[k].ev = "calculate" /\ trace[k].arg.output.kind = "raise"

\* C9: display_player_stats takes the players search_player returned one at
\* a time in list order; the calculator is called for a player only after
\* the fetch for that player returned a non-empty list, and on its first
\* record; when the fetch or the calculation fails for the player at
\* position i, the error is printed exactly once, the method returns, and
\* nothing is fetched, computed or printed for a position beyond i.
C9_OneAtATimeStopAtFailure ==
    LET n == Len(trace)
        fetches == {k \in 1..n : trace[k].ev = "fetch"}
    IN  /\ \A k \in 1..n : trace[k].pos <= Len(players)
        /\ \A k \in 1..n, l \in 1..n : k < l /\ trace[k].pos > 0 => trace[k].pos <= trace[l].pos \/ trace[l].pos = 0
        /\ \A k \in fetches :
              /\ trace[k].pos = Cardinality({j \in fetches : j <= k})
              /\ trace[k].arg.player_id = players[trace[k].pos]["id"]
        /\ \A k \in 1..n : trace[k].pos > 0 =>
              \E j \in fetches : j <= k /\ trace[j].pos = trace[k].pos
        /\ \A k \in 1..n : trace[k].ev = "calculate" =>
              \E j \in fetches :
                  /\ j < k
                  /\ trace[j].pos = trace[k].pos
                  /\ trace[j].arg.output.kind = "return"
                  /\ trace[j].arg.output.value # <<>>
                  /\ trace[k].arg.basic_stats = trace[j].arg.output.value[1]
        /\ \A k \in 1..n : FailedAt(k) =>
              /\ n = k + 1
              /\ trace[n].ev = "error"
              /\ Cardinality({j \in 1..n : trace[j].ev = "error"}) = 1
              /\ \A j \in 1..n : trace[j].pos <= trace[k].pos
              /\ ~InDisplay

C9_Witness ==
    /\ Len(players) >= 2
    /\ \E k \in 1..Len(trace) :
          /\ trace[k].ev = "calculate"
          /\ trace[k].pos = 1
          /\ trace[k].arg.output.kind = "raise"
    /\ trace[Len(trace)].ev = "error"
    /\ pc = "menu"

\* C10: no failure ends the session: display_player_stats returns in every
\* case, the menu comes again after every option 1 or option 2 request, and
\* main leaves its loop only when the user selects option 3.
C10_OnlyQuitEnds ==
    pc = "end" => choice.option = "3"

====
